---- MODULE Spec2Model ----
(***************************************************************************)
(* Model of mythril/ethereum/interface/leveldb/client.py: the LevelDB      *)
(* reader (head resolution, point reads), the LevelDB writer (batch and    *)
(* progress marker) and the EthLevelDB client (contract search), together  *)
(* with the account indexing job that drives the writer.                   *)
(*                                                                         *)
(* Byte strings are sequences of integers; a store key is the raw          *)
(* concatenation of a literal prefix with number and/or hash fields, as in *)
(* the source.  Hashes are two bytes wide instead of 32.                   *)
(***************************************************************************)
EXTENDS Integers, Sequences, FiniteSets, TLC

\* ---------------------------------------------------------------- bounds
\* Highest block number of the modelled chain (blocks 0..MaxHead).
MaxHead == 2
\* Number of distinct contract addresses that receipts may create.
NumAddr == 2
\* Finished catch-up runs that are told apart.
MaxRuns == 2
\* Most accounts the head state enumerates.
MaxAccounts == 3

\* ------------------------------------------------------- python's None
None == <<-1>>

\* ------------------------------------------------ key schema (literals)
header_prefix == <<104>>
body_prefix == <<98>>
num_suffix == <<110>>
block_hash_prefix == <<72>>
block_receipts_prefix == <<114>>
head_header_key == <<76, 97, 115, 116, 66, 108, 111, 99, 107>>
address_prefix == <<65, 77>>
address_mapping_head_key ==
  <<97, 99, 99, 111, 117, 110, 116, 77, 97, 112, 112, 105, 110, 103>>

\* ------------------------------------------------------- number codec
RECURSIVE int_to_big_endian(_)
int_to_big_endian(n) ==
  IF n = 0 THEN <<>> ELSE Append(int_to_big_endian(n \div 256), n % 256)

\* Variant: the padding goes to the right of the bytes.
zpad_Right(x, l) == x \o [i \in 1..(l - Len(x)) |-> 0]

zpad(x, l) == [i \in 1..(l - Len(x)) |-> 0] \o x

format_block_number(number) == zpad(int_to_big_endian(number), 8)

RECURSIVE big_endian_to_int(_)
big_endian_to_int(s) ==
  IF s = <<>> THEN 0
  ELSE 256 * big_endian_to_int(SubSeq(s, 1, Len(s) - 1)) + s[Len(s)]

\* ------------------------------------------------- the chain's contents
Blocks == 0..MaxHead
ZeroHash == <<0, 0>>
BlockHash(n) == <<1, n>>
StateRoot(n) == <<2, n>>
Sentinels == {None, ZeroHash}

\* The decoded header of block n; the genesis parent is the sentinel s.
Header(n, s) ==
  [number |-> n,
   hash |-> BlockHash(n),
   prevhash |-> IF n = 0 THEN s ELSE BlockHash(n - 1),
   state_root |-> StateRoot(n)]

NoHeader == [number |-> -1, hash |-> None, prevhash |-> None, state_root |-> None]

HashNumKey(n) == block_hash_prefix \o BlockHash(n)
HeaderKey(n) == header_prefix \o format_block_number(n) \o BlockHash(n)
CanonKey(n) == header_prefix \o format_block_number(n) \o num_suffix
ReceiptsKey(n) == block_receipts_prefix \o format_block_number(n) \o BlockHash(n)

\* Keys a partially written store may lack.
ChainKeys == UNION {{HashNumKey(n), HeaderKey(n), StateRoot(n)} : n \in Blocks}

\* The chain part of a complete store whose genesis parent is s.
ChainValue(k, s) ==
  LET n == CHOOSE m \in Blocks : k \in {HashNumKey(m), HeaderKey(m), StateRoot(m), CanonKey(m)}
  IN  IF k = HashNumKey(n) THEN format_block_number(n)
      ELSE IF k = HeaderKey(n) THEN Header(n, s)
      ELSE IF k = CanonKey(n) THEN BlockHash(n)
      ELSE <<1>>

\* A store holding the keys of ChainKeys that are not in missing, the
\* canonical hashes, and LastBlock pointing at block head (absent when -1).
ChainStore(missing, head, s) ==
  LET keys == (ChainKeys \ missing) \cup {CanonKey(n) : n \in Blocks}
                \cup (IF head = -1 THEN {} ELSE {head_header_key})
  IN  [k \in keys |-> IF k = head_header_key THEN BlockHash(head) ELSE ChainValue(k, s)]

\* ------------------------------------------------------ storage engine
dbGet(d, key) == IF key \in DOMAIN d THEN d[key] ELSE None

dbPut(d, key, value) ==
  [k \in DOMAIN d \cup {key} |-> IF k = key THEN value ELSE d[k]]

\* python truthiness of a bytes-or-None value
Truthy(v) == v # None /\ v # <<>>


\* --------------------------------------------------------------- state
VARIABLES
  db,                 \* the key-value store: key -> value
  accounts,           \* accounts enumerated by the head StateView (trie)
  head_block_header,  \* LevelDBReader.head_block_header (NoHeader = None)
  head_state,         \* LevelDBReader.head_state: root of the State, or None
  wb,                 \* LevelDBWriter.wb: the write batch
  pc,                 \* position of the indexing job
  blockNum,           \* block the indexing job is working on
  lastBlock,          \* head number the indexing job runs up to
  pending,            \* addresses of blockNum not yet staged
  runs,               \* finished catch-up runs (saturates at MaxRuns)
  indexed,            \* addresses whose staged put has been committed
  search,             \* the running search: position, expression, callbacks
  peer,               \* a second client process on the same store, parked
  lastCall            \* outcome of the last finished call

vars == <<db, accounts, head_block_header, head_state, wb, pc, blockNum,
          lastBlock, pending, runs, indexed, search, peer, lastCall>>

readerVars == <<head_block_header, head_state>>
indexerVars == <<wb, pc, blockNum, lastBlock, pending, runs, indexed>>

NoBatch == [set |-> FALSE, written |-> FALSE, puts |-> <<>>]

\* The second client before it has done anything: no cached head, no batch,
\* no run; interleaved records that a process was parked in mid-run.
NoPeer ==
  [head_block_header |-> NoHeader, head_state |-> None, wb |-> NoBatch,
   pc |-> "idle", blockNum |-> 0, lastBlock |-> 0, pending |-> {},
   interleaved |-> FALSE]
NoSearch == [active |-> FALSE, pos |-> 0, expression |-> {}, out |-> <<>>]
Result(op, arg, err, hdr, val) ==
  [op |-> op, arg |-> arg, err |-> err, hdr |-> hdr, val |-> val]
NoCall == Result("none", None, "ok", NoHeader, None)

\* ------------------------------------------------------- LevelDBReader
get_block_hash(d, number) ==
  dbGet(d, header_prefix \o format_block_number(number) \o num_suffix)

get_block_number(d, block_hash) == dbGet(d, block_hash_prefix \o block_hash)

\* header_prefix + num + block_hash raises TypeError when num is None;
\* rlp.decode raises when the header key is absent.
get_block_header(d, block_hash, num) ==
  IF num = None \/ block_hash = None THEN [hdr |-> NoHeader, err |-> "TypeError"]
  ELSE LET header_key == header_prefix \o num \o block_hash
       IN  IF header_key \notin DOMAIN d
           THEN [hdr |-> NoHeader, err |-> "DecodeError"]
           ELSE [hdr |-> d[header_key], err |-> "ok"]

\* block_hash_prefix + block_hash raises TypeError when block_hash is None.
FetchHeader(d, block_hash) ==
  IF block_hash = None THEN [hdr |-> NoHeader, err |-> "TypeError"]
  ELSE get_block_header(d, block_hash, get_block_number(d, block_hash))

\* The walk-back loop from header h; hdr is what the field holds when the
\* loop ends or raises.
RECURSIVE WalkBack(_, _)
WalkBack(d, h) ==
  IF ~Truthy(dbGet(d, h.state_root)) /\ h.prevhash # None
  THEN LET f == FetchHeader(d, h.prevhash)
       IN  IF f.err # "ok" THEN [hdr |-> h, err |-> f.err]
           ELSE WalkBack(d, f.hdr)
  ELSE [hdr |-> h, err |-> "ok"]

\* Variant: the cached header is ignored and the head is resolved again.
get_head_block_NoCache(d, cached) ==
  LET f == FetchHeader(d, dbGet(d, head_header_key))
  IN  IF f.err # "ok" THEN [hdr |-> NoHeader, err |-> f.err]
      ELSE WalkBack(d, f.hdr)

get_head_block(d, cached) ==
  IF cached # NoHeader THEN [hdr |-> cached, err |-> "ok"]
  ELSE LET f == FetchHeader(d, dbGet(d, head_header_key))
       IN  IF f.err # "ok" THEN [hdr |-> NoHeader, err |-> f.err]
           ELSE WalkBack(d, f.hdr)

get_address_by_hash(d, hash) == dbGet(d, address_prefix \o hash)

\* Variant: the marker is read under the index prefix instead of its own key.
get_last_indexed_number_WrongKey(d) ==
  dbGet(d, address_prefix \o address_mapping_head_key)

get_last_indexed_number(d) == dbGet(d, address_mapping_head_key)

\* A call of LevelDBReader._get_head_block.
GetHeadBlock ==
  LET r == get_head_block(db, head_block_header)
  IN  /\ head_block_header' = r.hdr
      /\ lastCall' = Result("get_head_block", None, r.err,
                            IF r.err = "ok" THEN r.hdr ELSE NoHeader, None)
      /\ UNCHANGED <<db, accounts, peer, head_state, indexerVars, search>>

\* A call of LevelDBReader._get_head_state.
GetHeadState ==
  IF head_state # None
  THEN /\ lastCall' = Result("get_head_state", None, "ok", NoHeader, head_state)
       /\ UNCHANGED <<db, accounts, peer, readerVars, indexerVars, search>>
  ELSE LET r == get_head_block(db, head_block_header)
       IN  /\ head_block_header' = r.hdr
           /\ head_state' = IF r.err = "ok" THEN r.hdr.state_root ELSE head_state
           /\ lastCall' = Result("get_head_state", None, r.err, NoHeader,
                                 IF r.err = "ok" THEN r.hdr.state_root ELSE None)
           /\ UNCHANGED <<db, accounts, peer, indexerVars, search>>

\* ------------------------------------- specification: head resolution
\* Every store a partially written chain can leave behind.
InitHead ==
  /\ \E missing \in SUBSET ChainKeys, head \in Blocks \cup {-1}, s \in Sentinels :
       db = ChainStore(missing, head, s)
  /\ accounts = <<>>
  /\ peer = NoPeer
  /\ head_block_header = NoHeader
  /\ head_state = None
  /\ wb = NoBatch
  /\ pc = "idle"
  /\ blockNum = 0
  /\ lastBlock = 0
  /\ pending = {}
  /\ runs = 0
  /\ indexed = {}
  /\ search = NoSearch
  /\ lastCall = NoCall

NextHead == GetHeadBlock \/ GetHeadState

SpecHead == InitHead /\ [][NextHead]_vars


\* ------------------------------------------- claims on head resolution
\* Number of the header named by the LastBlock key, -1 when the key or the
\* header it names cannot be read.
RecordedHead(d) ==
  LET named == {n \in Blocks : dbGet(d, head_header_key) = BlockHash(n)
                               /\ HashNumKey(n) \in DOMAIN d
                               /\ HeaderKey(n) \in DOMAIN d}
  IN  IF named = {} THEN -1 ELSE CHOOSE n \in named : TRUE

\* Block n can be read by hash from the store.
Readable(d, n) == HashNumKey(n) \in DOMAIN d /\ HeaderKey(n) \in DOMAIN d

RootPresent(d, n) == StateRoot(n) \in DOMAIN d

\* Ancestors of block h0 the parent-hash chain leads to, with a state root.
GoodAncestors(d, h0) ==
  {n \in 0..(h0 - 1) : RootPresent(d, n) /\ \A m \in n..h0 : Readable(d, m)}

\* C1: on a store whose recorded head has no state root in the store,
\* resolveHead returns the nearest ancestor whose state root is present:
\* a returned header is never the recorded head, has its state root in the
\* store, and no header between it and the recorded head has one; and when
\* such an ancestor exists a header is returned.
C1_NearestAncestor ==
  LET h0 == RecordedHead(db)
      n  == lastCall.hdr.number
  IN  (lastCall.op = "get_head_block" /\ h0 # -1 /\ ~RootPresent(db, h0)) =>
        /\ lastCall.err = "ok" =>
             /\ n # h0
             /\ RootPresent(db, n)
             /\ \A m \in (n + 1)..h0 : ~RootPresent(db, m)
        /\ GoodAncestors(db, h0) # {} => lastCall.err = "ok"

\* C2: when no header from the recorded head down to the genesis header has
\* its state root in the store, resolveHead fails with NoConsistentHead.
C2_NoConsistentHead ==
  LET h0 == RecordedHead(db)
  IN  (/\ lastCall.op = "get_head_block"
       /\ h0 # -1
       /\ \A m \in 0..h0 : Readable(db, m) /\ ~RootPresent(db, m))
      => lastCall.err = "NoConsistentHead"

\* C3: once resolveHead has returned, the cached head header has its state
\* root in the store, and a cached StateView is rooted at that state root,
\* which is a key of the store.
C3_CachedHeadHasState ==
  /\ (lastCall.op \in {"get_head_block", "get_head_state"} /\ lastCall.err = "ok"
        /\ head_block_header # NoHeader)
       => Truthy(dbGet(db, head_block_header.state_root))
  /\ head_state # None =>
       /\ head_state = head_block_header.state_root
       /\ Truthy(dbGet(db, head_state))


\* ------------------------------------------------------- LevelDBWriter
\* utils.sha3 as a two-byte digest of a byte string.
RECURSIVE Digest(_)
Digest(x) == IF x = <<>> THEN 7 ELSE (31 * Digest(Tail(x)) + Head(x)) % 251

\* Variant: every byte string has the same digest.
sha3_Constant(x) == <<3, 1>>

sha3(x) == <<3, Digest(x)>>

\* The write batch of the storage engine: all staged puts applied at once.
WriteBatch(d, puts) ==
  [k \in DOMAIN d \cup DOMAIN puts |-> IF k \in DOMAIN puts THEN puts[k] ELSE d[k]]

\* Variant: the number of blocks left below the highest head is written.
set_last_indexed_number_Countdown(d, number) ==
  dbPut(d, address_mapping_head_key, format_block_number(MaxHead + 1 - number))

set_last_indexed_number(d, number) ==
  dbPut(d, address_mapping_head_key, format_block_number(number))

start_writing == [set |-> TRUE, written |-> FALSE, puts |-> <<>>]

\* Variant: the commit leaves one staged put out.
commit_batch_Partial(d, w) ==
  LET ks == DOMAIN w.puts
      drop == IF ks = {} THEN {} ELSE {CHOOSE k \in ks : TRUE}
  IN  WriteBatch(d, [k \in ks \ drop |-> w.puts[k]])

commit_batch(d, w) == WriteBatch(d, w.puts)

\* Variant: the entry is keyed by the address itself, not by its hash.
store_account_address_Unhashed(w, address) ==
  [w EXCEPT !.puts = dbPut(w.puts, address_prefix \o address, address)]

store_account_address(w, address) ==
  [w EXCEPT !.puts = dbPut(w.puts, address_prefix \o sha3(address), address)]

\* ------------------------------------------------------- account index
Addresses == {<<160 + i>> : i \in 1..NumAddr}

\* Hashes a caller may look up: those of the addresses and one of no address.
UnknownHash == <<3, 0>>
Hashes == {sha3(a) : a \in Addresses} \cup {UnknownHash}

\* Contract addresses created in block number, read from its receipts.
get_block_receipts(d, block_hash, num) ==
  dbGet(d, block_receipts_prefix \o format_block_number(num) \o block_hash)

\* IndexProgress as the job reads it: zero when the marker is absent.
\* Variant: the marker is ignored and every run starts after genesis.
Progress_FromGenesis(d) == 0

Progress(d) ==
  LET p == get_last_indexed_number(d)
  IN  IF p = None THEN 0 ELSE big_endian_to_int(p)

Bump(n) == IF n < MaxRuns THEN n + 1 ELSE n

\* catchUp starts: reads the marker, resolves the head, and either has
\* nothing to do or moves to the first block after the marker.
CatchUpStart ==
  /\ pc = "idle"
  /\ LET r == get_head_block(db, head_block_header)
         first == Progress(db) + 1
     IN  /\ head_block_header' = r.hdr
         /\ IF r.err # "ok"
            THEN /\ lastCall' = Result("catchUp", None, r.err, NoHeader, None)
                 /\ UNCHANGED <<pc, blockNum, lastBlock, runs>>
            ELSE /\ lastBlock' = r.hdr.number
                 /\ blockNum' = first
                 /\ IF first > r.hdr.number
                    THEN pc' = "idle" /\ runs' = Bump(runs)
                    ELSE pc' = "begin" /\ runs' = runs
                 /\ lastCall' = Result("catchUp", None, "ok", NoHeader,
                                       IF first > r.hdr.number THEN <<>> ELSE None)
  /\ UNCHANGED <<db, accounts, peer, head_state, wb, pending, indexed, search>>

\* Fetch block blockNum, extract its created addresses, open a batch.
BeginBlock ==
  /\ pc = "begin"
  /\ LET block_hash == get_block_hash(db, blockNum)
     IN  IF block_hash = None
         THEN /\ pc' = "idle"
              /\ lastCall' = Result("catchUp", None, "NotFound", NoHeader, None)
              /\ UNCHANGED <<wb, pending>>
         ELSE /\ pending' = get_block_receipts(db, block_hash, blockNum)
              /\ wb' = start_writing
              /\ pc' = "store"
              /\ lastCall' = Result("begin", format_block_number(blockNum), "ok", NoHeader, None)
  /\ UNCHANGED <<db, accounts, peer, readerVars, blockNum, lastBlock, runs, indexed, search>>

\* Stage the put of one discovered address.
StoreAddress ==
  /\ pc = "store"
  /\ \E a \in pending :
       /\ wb' = store_account_address(wb, a)
       /\ pending' = pending \ {a}
       /\ lastCall' = Result("store", a, "ok", NoHeader, None)
  /\ UNCHANGED <<db, accounts, peer, readerVars, pc, blockNum, lastBlock, runs, indexed, search>>

\* Record IndexProgress = blockNum through the writer.
SetProgress ==
  /\ pc = "store"
  /\ pending = {}
  /\ db' = set_last_indexed_number(db, blockNum)
  /\ pc' = "commit"
  /\ lastCall' = Result("progress", format_block_number(blockNum), "ok", NoHeader, None)
  /\ UNCHANGED <<accounts, peer, readerVars, wb, blockNum, lastBlock, pending, runs,
               indexed, search>>

\* Commit the batch and move to the next block, or finish.
CommitBatch ==
  /\ pc = "commit"
  /\ db' = commit_batch(db, wb)
  /\ wb' = [wb EXCEPT !.written = TRUE]
  /\ indexed' = indexed \cup {wb.puts[k] : k \in DOMAIN wb.puts}
  /\ blockNum' = blockNum + 1
  /\ IF blockNum + 1 > lastBlock
     THEN pc' = "idle" /\ runs' = Bump(runs)
     ELSE pc' = "begin" /\ runs' = runs
  /\ lastCall' = Result("commit", format_block_number(blockNum), "ok", NoHeader,
                        IF blockNum + 1 > lastBlock THEN <<>> ELSE None)
  /\ UNCHANGED <<accounts, peer, readerVars, lastBlock, pending, search>>

\* The engine fails the commit: nothing is written, the error propagates
\* and catchUp ends without a retry.
CommitFail ==
  /\ pc = "commit"
  /\ pc' = "idle"
  /\ lastCall' = Result("commit", format_block_number(blockNum), "IOError", NoHeader, None)
  /\ UNCHANGED <<db, accounts, peer, readerVars, wb, blockNum, lastBlock, pending, runs,
               indexed, search>>

\* The process is killed while catchUp runs: memory is lost, the store stays.
Crash ==
  /\ pc # "idle"
  /\ head_block_header' = NoHeader
  /\ head_state' = None
  /\ wb' = NoBatch
  /\ pc' = "idle"
  /\ blockNum' = 0
  /\ lastBlock' = 0
  /\ pending' = {}
  /\ lastCall' = Result("crash", None, "ok", NoHeader, None)
  /\ UNCHANGED <<db, accounts, peer, runs, indexed, search>>

\* lookup(hash): a point read; AddressNotFound when the read finds nothing.
get_contract_by_hash(d, hash) ==
  LET address == get_address_by_hash(d, hash)
  IN  IF address # None THEN [val |-> address, err |-> "ok"]
      ELSE [val |-> None, err |-> "AddressNotFound"]

Lookup ==
  /\ pc = "idle"
  /\ \E h \in Hashes :
       LET r == get_contract_by_hash(db, h)
       IN  lastCall' = Result("lookup", h, r.err, NoHeader, r.val)
  /\ UNCHANGED <<db, accounts, peer, readerVars, indexerVars, search>>

\* -------------------------------------- specification: account index
\* A complete chain with any head and any receipts, and no index yet.
InitIndex ==
  /\ \E head \in Blocks, rc \in [1..MaxHead -> SUBSET Addresses] :
       db = WriteBatch(ChainStore({}, head, ZeroHash),
                       [k \in {ReceiptsKey(n) : n \in Blocks} |->
                          LET n == CHOOSE m \in Blocks : k = ReceiptsKey(m)
                          IN  IF n = 0 THEN {} ELSE rc[n]])
  /\ accounts = <<>>
  /\ peer = NoPeer
  /\ head_block_header = NoHeader
  /\ head_state = None
  /\ wb = NoBatch
  /\ pc = "idle"
  /\ blockNum = 0
  /\ lastBlock = 0
  /\ pending = {}
  /\ runs = 0
  /\ indexed = {}
  /\ search = NoSearch
  /\ lastCall = NoCall

NextIndex ==
  \/ CatchUpStart
  \/ BeginBlock
  \/ StoreAddress
  \/ SetProgress
  \/ CommitBatch
  \/ CommitFail
  \/ Crash
  \/ Lookup

SpecIndex == InitIndex /\ [][NextIndex]_vars

\* ----------------------- specification: catch-up interrupted by crashes
\* The engine never fails a commit; a run ends by finishing or by a crash.
NextResume ==
  \/ CatchUpStart
  \/ BeginBlock
  \/ StoreAddress
  \/ SetProgress
  \/ CommitBatch
  \/ Crash

SpecResume == InitIndex /\ [][NextResume]_vars


\* ---------------------------------------------- claims on the account index
\* Addresses created in block n, as the store's receipts give them.
Created(d, n) == get_block_receipts(d, BlockHash(n), n)

\* The hash->address entry of address a is visible in the store.
EntryVisible(d, a) == dbGet(d, address_prefix \o sha3(a)) = a

IndexKeys(d) == {k \in DOMAIN d : Len(k) > 2 /\ SubSeq(k, 1, 2) = address_prefix}

\* C4: in every store state, crash points included, every block number up
\* to the persisted IndexProgress has all the addresses created in it
\* visible in the index.
C4_ProgressCovered ==
  \A n \in 1..Progress(db) : \A a \in Created(db, n) : EntryVisible(db, a)

\* C5: IndexProgress changes only in the step that commits the open batch,
\* as one of that batch's staged puts, and once block N's batch is
\* committed IndexProgress is not below N.
C5_ProgressOnlyInBatch ==
  [][/\ get_last_indexed_number(db') # get_last_indexed_number(db) =>
          /\ pc = "commit"
          /\ wb.set
          /\ address_mapping_head_key \in DOMAIN wb.puts
          /\ db' = WriteBatch(db, wb.puts)
     /\ (lastCall'.op = "commit" /\ lastCall'.err = "ok") =>
          Progress(db') >= big_endian_to_int(lastCall'.arg)]_vars

\* C6: whenever a catchUp run has finished, whatever interruptions came
\* before it, the store holds what one uninterrupted run leaves: IndexProgress
\* is the head number and the index entries are exactly hash(a) -> a for
\* the addresses created in blocks 1..head.
C6_Resumable ==
  runs > 0 =>
    LET head == RecordedHead(db)
        all  == UNION {Created(db, n) : n \in 1..head}
    IN  /\ Progress(db) = head
        /\ \A a \in all : EntryVisible(db, a)
        /\ IndexKeys(db) = {address_prefix \o sha3(a) : a \in all}

\* C7: once a catchUp run has finished, no later step of any catchUp run
\* changes the store (IndexProgress and all index entries stay as they are).
C7_Idempotent == [][runs > 0 => db' = db]_vars

\* A second run has finished on a store with a non-empty index.
C7_Witness == runs >= 2 /\ Progress(db) > 0 /\ IndexKeys(db) # {}

\* C8: lookup of hash(a) returns a for every address a the indexer has
\* stored, and lookup of any other hash fails with AddressNotFound.
C8_LookupReturnsStored ==
  lastCall.op = "lookup" =>
    LET stored == {a \in indexed : sha3(a) = lastCall.arg}
    IN  IF stored # {}
        THEN lastCall.err = "ok" /\ stored = {lastCall.val}
        ELSE lastCall.err = "AddressNotFound" /\ lastCall.val = None

\* A lookup has returned an address the indexer stored.
C8_Witness ==
  lastCall.op = "lookup" /\ lastCall.err = "ok" /\ lastCall.val \in indexed

\* C10: staging a put leaves the store as it is; a commit makes every
\* staged put of the batch visible; a failed commit leaves the store as it
\* is; and no step makes some but not all staged puts of the batch visible.
C10_BatchAtomic ==
  [][/\ wb'.puts # wb.puts => db' = db
     /\ (lastCall'.op = "commit" /\ lastCall'.err = "ok") =>
          \A k \in DOMAIN wb.puts : dbGet(db', k) = wb.puts[k]
     /\ (lastCall'.op = "commit" /\ lastCall'.err # "ok") => db' = db
     /\ (\E k \in DOMAIN wb.puts : dbGet(db', k) # dbGet(db, k)) =>
          \A k \in DOMAIN wb.puts : dbGet(db', k) = wb.puts[k]]_vars

\* A batch of two staged puts has been committed.
C10_Witness ==
  /\ lastCall.op = "commit" /\ lastCall.err = "ok"
  /\ wb.written
  /\ Cardinality(DOMAIN wb.puts) >= 2
  /\ \A k \in DOMAIN wb.puts : dbGet(db, k) = wb.puts[k]


\* ---------------------------------------------------------- EthLevelDB
HexChar(n) == IF n < 10 THEN 48 + n ELSE 87 + n

RECURSIVE HexDigits(_)
HexDigits(v) ==
  IF v = <<>> THEN <<>>
  ELSE <<HexChar(Head(v) \div 16), HexChar(Head(v) % 16)>> \o HexDigits(Tail(v))

\* "0x" + utils.encode_hex(v)
encode_hex(v) == <<48, 120>> \o HexDigits(v)

\* Account codes of the state trie, and the expressions over them: an
\* expression is the set of contract codes it matches.
Codes == {<<96>>, <<97>>}
Expressions == SUBSET {encode_hex(c) : c \in Codes}

Account(hash, code) == [address |-> hash, code |-> code, balance |-> Digest(hash)]

\* The (contract, address hash, balance) triples get_contracts yields.
RECURSIVE get_contracts(_)
get_contracts(accts) ==
  IF accts = <<>> THEN <<>>
  ELSE LET account == Head(accts)
       IN  (IF account.code # None
            THEN <<[contract |-> encode_hex(account.code),
                    address_hash |-> account.address,
                    balance |-> account.balance]>>
            ELSE <<>>) \o get_contracts(Tail(accts))

matches_expression(contract, expression) == contract \in expression

\* Variant: an unresolved match is not skipped, the callback runs on it.
search_visit_NoSkip(d, item, expression, out) ==
  IF matches_expression(item.contract, expression)
  THEN LET r == get_contract_by_hash(d, item.address_hash)
       IN  Append(out, [contract |-> item.contract,
                        address |-> IF r.err = "ok" THEN encode_hex(r.val)
                                    ELSE encode_hex(<<>>),
                        balance |-> item.balance])
  ELSE out

\* The body of search's loop for one yielded contract: the sequence of
\* callback invocations after it.
search_visit(d, item, expression, out) ==
  IF matches_expression(item.contract, expression)
  THEN LET r == get_contract_by_hash(d, item.address_hash)
       IN  IF r.err = "AddressNotFound" THEN out
           ELSE Append(out, [contract |-> item.contract,
                             address |-> encode_hex(r.val),
                             balance |-> item.balance])
  ELSE out

\* search begins: the first step of get_contracts resolves the head state.
\* The index is in whatever state earlier indexing left it.
SearchStart ==
  /\ ~search.active
  /\ \E expression \in Expressions :
       LET r == get_head_block(db, head_block_header)
           have == head_state # None
       IN  /\ head_block_header' = IF have THEN head_block_header ELSE r.hdr
           /\ head_state' = IF have \/ r.err # "ok" THEN head_state
                            ELSE r.hdr.state_root
           /\ IF ~have /\ r.err # "ok"
              THEN /\ search' = NoSearch
                   /\ lastCall' = Result("search", None, r.err, NoHeader, None)
              ELSE /\ search' = [active |-> TRUE, pos |-> 0,
                                 expression |-> expression, out |-> <<>>]
                   /\ lastCall' = Result("search_start", None, "ok", NoHeader, None)
  /\ UNCHANGED <<db, accounts, peer, indexerVars>>

\* One iteration of search's loop.
SearchStep ==
  /\ search.active
  /\ search.pos < Len(get_contracts(accounts))
  /\ search' = [search EXCEPT
                  !.pos = @ + 1,
                  !.out = search_visit(db, get_contracts(accounts)[search.pos + 1],
                                       search.expression, @)]
  /\ lastCall' = Result("search_step", None, "ok", NoHeader, None)
  /\ UNCHANGED <<db, accounts, peer, readerVars, indexerVars>>

\* The enumeration is exhausted and search returns.
SearchFinish ==
  /\ search.active
  /\ search.pos = Len(get_contracts(accounts))
  /\ search' = [search EXCEPT !.active = FALSE]
  /\ lastCall' = Result("search", None, "ok", NoHeader, None)
  /\ UNCHANGED <<db, accounts, peer, readerVars, indexerVars>>

\* ------------------------------------- specification: contract search
\* Sequences of at most n accounts over hashes hs, no hash twice.
RECURSIVE AccountSeqs(_, _)
AccountSeqs(n, hs) ==
  IF n = 0 THEN {<<>>}
  ELSE {<<>>} \cup
       UNION {{<<Account(h, c)>> \o rest : rest \in AccountSeqs(n - 1, hs \ {h})} :
                <<h, c>> \in hs \X (Codes \cup {None})}

\* A complete chain, an index holding any subset of the addresses, and a
\* head state enumerating any accounts.
InitSearch ==
  /\ \E idx \in SUBSET Addresses :
       db = WriteBatch(ChainStore({}, MaxHead, ZeroHash),
                       [k \in {address_prefix \o sha3(a) : a \in idx} |->
                          CHOOSE a \in idx : k = address_prefix \o sha3(a)])
  /\ accounts \in AccountSeqs(MaxAccounts, Hashes)
  /\ peer = NoPeer
  /\ head_block_header = NoHeader
  /\ head_state = None
  /\ wb = NoBatch
  /\ pc = "idle"
  /\ blockNum = 0
  /\ lastBlock = 0
  /\ pending = {}
  /\ runs = 0
  /\ indexed = {}
  /\ search = NoSearch
  /\ lastCall = NoCall

NextSearch == SearchStart \/ SearchStep \/ SearchFinish

SpecSearch == InitSearch /\ [][NextSearch]_vars

\* ------------------------------------------------- claims on search
\* The accounts search must report among accts: those with code that
\* matches the expression and whose address hash is in the index.
Reportable(d, accts, expression) ==
  SelectSeq(accts, LAMBDA a : /\ a.code # None
                              /\ encode_hex(a.code) \in expression
                              /\ address_prefix \o a.address \in DOMAIN d)

\* The callback invocation search owes to account a.
Report(d, a) ==
  [contract |-> encode_hex(a.code),
   address |-> encode_hex(d[address_prefix \o a.address]),
   balance |-> a.balance]

\* C9: when search returns, the callback has run, in enumeration order
\* and once each, on exactly the accounts with code that match and whose
\* hash resolves in the index; unresolved matches are skipped and the scan
\* has gone through every account with code.
C9_SearchReports ==
  (lastCall.op = "search" /\ lastCall.err = "ok") =>
    LET want == Reportable(db, accounts, search.expression)
    IN  /\ search.out = [i \in 1..Len(want) |-> Report(db, want[i])]
        /\ search.pos = Len(SelectSeq(accounts, LAMBDA a : a.code # None))

\* A search has returned after skipping an unresolved match and reporting
\* a later account.
C9_Witness ==
  /\ lastCall.op = "search" /\ lastCall.err = "ok"
  /\ \E i, j \in 1..Len(accounts) :
       /\ i < j
       /\ accounts[i].code # None
       /\ encode_hex(accounts[i].code) \in search.expression
       /\ address_prefix \o accounts[i].address \notin DOMAIN db
       /\ accounts[j].code # None
       /\ encode_hex(accounts[j].code) \in search.expression
       /\ address_prefix \o accounts[j].address \in DOMAIN db
       /\ Len(search.out) >= 1
       /\ search.out[Len(search.out)].balance = accounts[j].balance


\* --------------------------------------- claims on the writer's batch
\* IndexProgress as the store holds it: zero when the marker is absent.
Marker(d) ==
  IF address_mapping_head_key \in DOMAIN d
  THEN big_endian_to_int(d[address_mapping_head_key]) ELSE 0

\* The writer holds a batch that was started and not committed.
BatchOpen(w) == w.set /\ ~w.written

\* C11: a begin on a writer whose batch is still open is rejected with
\* InvalidState and leaves that batch and its staged puts in place.
C11_SingleOpenBatch ==
  [][(lastCall'.op = "begin" /\ BatchOpen(wb)) =>
       (lastCall'.err = "InvalidState" /\ wb' = wb)]_vars

\* ------------------- specification: catch-up with failing commits only
NextFail ==
  \/ CatchUpStart
  \/ BeginBlock
  \/ StoreAddress
  \/ SetProgress
  \/ CommitBatch
  \/ CommitFail

SpecFail == InitIndex /\ [][NextFail]_vars

\* C12: after the commit of block N has failed, IndexProgress is still
\* below N (its last committed value); and a run that finishes later leaves
\* IndexProgress at the head number and the index complete, as a run
\* without failure does.
C12_FailedCommitKeepsProgress ==
  /\ (lastCall.op = "commit" /\ lastCall.err = "IOError") =>
       Marker(db) < big_endian_to_int(lastCall.arg)
  /\ runs > 0 =>
       /\ Marker(db) = RecordedHead(db)
       /\ \A n \in 1..RecordedHead(db) : \A a \in Created(db, n) : EntryVisible(db, a)


\* ------------------------------------------- EthLevelDB: block queries
BodyKey(n) == body_prefix \o format_block_number(n) \o BlockHash(n)

\* The stored body of block n.
Body(n) == <<5, n>>

eth_getBlockHeaderByNumber(d, number) ==
  LET block_hash == get_block_hash(d, number)
      block_number == format_block_number(number)
  IN  get_block_header(d, block_hash, block_number)

\* body_prefix + block_number + block_hash raises TypeError when block_hash
\* is None; rlp.decode raises when the body key is absent.
eth_getBlockByNumber(d, number) ==
  LET block_hash == get_block_hash(d, number)
      block_number == format_block_number(number)
  IN  IF block_hash = None THEN [val |-> None, err |-> "TypeError"]
      ELSE LET body_key == body_prefix \o block_number \o block_hash
           IN  IF body_key \notin DOMAIN d
               THEN [val |-> None, err |-> "DecodeError"]
               ELSE [val |-> d[body_key], err |-> "ok"]

GetBlockHeaderByNumber ==
  /\ \E number \in Blocks :
       LET r == eth_getBlockHeaderByNumber(db, number)
       IN  lastCall' = Result("eth_getBlockHeaderByNumber",
                              format_block_number(number), r.err, r.hdr, None)
  /\ UNCHANGED <<db, accounts, peer, readerVars, indexerVars, search>>

GetBlockByNumber ==
  /\ \E number \in Blocks :
       LET r == eth_getBlockByNumber(db, number)
       IN  lastCall' = Result("eth_getBlockByNumber",
                              format_block_number(number), r.err, NoHeader, r.val)
  /\ UNCHANGED <<db, accounts, peer, readerVars, indexerVars, search>>

\* ------------------------------------ specification: block queries
\* A chain store with bodies from which any canonical-hash, header and body
\* keys are gone.
InitQuery ==
  /\ \E gone \in SUBSET UNION {{CanonKey(n), HeaderKey(n), BodyKey(n)} : n \in Blocks} :
       LET full == WriteBatch(ChainStore({}, MaxHead, ZeroHash),
                              [k \in {BodyKey(n) : n \in Blocks} |->
                                 Body(CHOOSE n \in Blocks : k = BodyKey(n))])
       IN  db = [k \in DOMAIN full \ gone |-> full[k]]
  /\ accounts = <<>>
  /\ peer = NoPeer
  /\ head_block_header = NoHeader
  /\ head_state = None
  /\ wb = NoBatch
  /\ pc = "idle"
  /\ blockNum = 0
  /\ lastBlock = 0
  /\ pending = {}
  /\ runs = 0
  /\ indexed = {}
  /\ search = NoSearch
  /\ lastCall = NoCall

NextQuery == GetBlockHeaderByNumber \/ GetBlockByNumber

SpecQuery == InitQuery /\ [][NextQuery]_vars

\* C13: a header or body query by a number whose canonical hash is not in
\* the store fails with NotFound: it returns nothing and fails with no
\* other error.
C13_NotFound ==
  (/\ lastCall.op \in {"eth_getBlockHeaderByNumber", "eth_getBlockByNumber"}
   /\ CanonKey(big_endian_to_int(lastCall.arg)) \notin DOMAIN db)
  => (lastCall.err = "NotFound" /\ lastCall.hdr = NoHeader /\ lastCall.val = None)


\* ------------------------------- EthLevelDB: address lookup by hash
HexVal(c) == IF c < 58 THEN c - 48 ELSE c - 87

RECURSIVE a2b_hex(_)
a2b_hex(x) ==
  IF Len(x) < 2 THEN <<>>
  ELSE <<16 * HexVal(x[1]) + HexVal(x[2])>> \o a2b_hex(SubSeq(x, 3, Len(x)))

remove_0x_head(x) ==
  IF Len(x) >= 2 /\ SubSeq(x, 1, 2) = <<48, 120>> THEN SubSeq(x, 3, Len(x)) ELSE x

\* Stage the puts of all of a block's addresses into batch w.
RECURSIVE StageAll(_, _)
StageAll(w, addrs) ==
  IF addrs = {} THEN w
  ELSE LET a == CHOOSE x \in addrs : TRUE
       IN  StageAll(store_account_address(w, a), addrs \ {a})

\* A whole catchUp run over blocks n..last from state st = [db, wb, indexed];
\* the commit of block failAt fails (none does when failAt is not a block).
RECURSIVE RunCatchUp(_, _, _, _)
RunCatchUp(st, n, last, failAt) ==
  IF n > last THEN [st |-> st, err |-> "ok"]
  ELSE LET block_hash == get_block_hash(st.db, n)
       IN  IF block_hash = None THEN [st |-> st, err |-> "NotFound"]
           ELSE LET w == StageAll(start_writing, get_block_receipts(st.db, block_hash, n))
                    d1 == set_last_indexed_number(st.db, n)
                IN  IF n = failAt
                    THEN [st |-> [db |-> d1, wb |-> w, indexed |-> st.indexed],
                          err |-> "IOError"]
                    ELSE RunCatchUp(
                           [db |-> commit_batch(d1, w),
                            wb |-> [w EXCEPT !.written = TRUE],
                            indexed |-> st.indexed \cup {w.puts[k] : k \in DOMAIN w.puts}],
                           n + 1, last, failAt)

\* AccountIndexer(client): resolves the head and, when IndexProgress is
\* behind it, runs catchUp before anything is looked up.
NewAccountIndexer(st, cached, failAt) ==
  LET r == get_head_block(st.db, cached)
  IN  IF r.err # "ok" THEN [st |-> st, hdr |-> r.hdr, err |-> r.err]
      ELSE LET c == RunCatchUp(st, Progress(st.db) + 1, r.hdr.number, failAt)
           IN  [st |-> c.st, hdr |-> r.hdr, err |-> c.err]

\* Variant: the address is read without the indexer being set up first.
contract_hash_to_address_NoIndexer(st, cached, contract_hash, failAt) ==
  LET address_hash == a2b_hex(remove_0x_head(contract_hash))
      r == get_contract_by_hash(st.db, address_hash)
  IN  [st |-> st, hdr |-> cached, err |-> r.err,
       val |-> IF r.err = "ok" THEN encode_hex(r.val) ELSE None]

contract_hash_to_address(st, cached, contract_hash, failAt) ==
  LET address_hash == a2b_hex(remove_0x_head(contract_hash))
      indexer == NewAccountIndexer(st, cached, failAt)
  IN  IF indexer.err # "ok"
      THEN [st |-> indexer.st, hdr |-> indexer.hdr, err |-> indexer.err, val |-> None]
      ELSE LET r == get_contract_by_hash(indexer.st.db, address_hash)
           IN  [st |-> indexer.st, hdr |-> indexer.hdr, err |-> r.err,
                val |-> IF r.err = "ok" THEN encode_hex(r.val) ELSE None]

\* search's loop over all yielded contracts.
RECURSIVE SearchAll(_, _, _, _)
SearchAll(d, items, expression, out) ==
  IF items = <<>> THEN out
  ELSE SearchAll(d, Tail(items), expression, search_visit(d, Head(items), expression, out))

FailPoints == (1..MaxHead) \cup {-1}

\* A call of EthLevelDB.contract_hash_to_address.
ContractHashToAddress ==
  /\ pc = "idle"
  /\ \E h \in Hashes, failAt \in FailPoints :
       LET r == contract_hash_to_address([db |-> db, wb |-> wb, indexed |-> indexed],
                                         head_block_header, encode_hex(h), failAt)
       IN  /\ db' = r.st.db
           /\ wb' = r.st.wb
           /\ indexed' = r.st.indexed
           /\ head_block_header' = r.hdr
           /\ lastCall' = Result("contract_hash_to_address", h, r.err, NoHeader, r.val)
  /\ UNCHANGED <<accounts, peer, head_state, pc, blockNum, lastBlock, pending, runs, search>>

\* A call of EthLevelDB.search, from the indexer's set-up to the last account.
ClientSearch ==
  /\ pc = "idle"
  /\ \E expression \in Expressions, failAt \in FailPoints :
       LET indexer == NewAccountIndexer([db |-> db, wb |-> wb, indexed |-> indexed],
                                        head_block_header, failAt)
       IN  /\ db' = indexer.st.db
           /\ wb' = indexer.st.wb
           /\ indexed' = indexer.st.indexed
           /\ head_block_header' = indexer.hdr
           /\ IF indexer.err # "ok"
              THEN /\ UNCHANGED <<head_state, search>>
                   /\ lastCall' = Result("search", None, indexer.err, NoHeader, None)
              ELSE /\ head_state' = IF head_state # None THEN head_state
                                    ELSE indexer.hdr.state_root
                   /\ search' = [active |-> FALSE,
                                 pos |-> Len(get_contracts(accounts)),
                                 expression |-> expression,
                                 out |-> SearchAll(indexer.st.db, get_contracts(accounts),
                                                   expression, <<>>)]
                   /\ lastCall' = Result("search", None, "ok", NoHeader, None)
  /\ UNCHANGED <<accounts, peer, pc, blockNum, lastBlock, pending, runs>>

\* ---------------------------------- specification: client lookups
\* A complete chain whose blocks create at most one address each, no
\* index yet, and a head state of at most one account, of one address.
InitClient ==
  /\ \E rc \in [1..MaxHead -> {{}} \cup {{a} : a \in Addresses}] :
       db = WriteBatch(ChainStore({}, MaxHead, ZeroHash),
                       [k \in {ReceiptsKey(n) : n \in Blocks} |->
                          LET n == CHOOSE m \in Blocks : k = ReceiptsKey(m)
                          IN  IF n = 0 THEN {} ELSE rc[n]])
  /\ accounts \in AccountSeqs(1, {sha3(CHOOSE a \in Addresses : TRUE)})
  /\ peer = NoPeer
  /\ head_block_header = NoHeader
  /\ head_state = None
  /\ wb = NoBatch
  /\ pc = "idle"
  /\ blockNum = 0
  /\ lastBlock = 0
  /\ pending = {}
  /\ runs = 0
  /\ indexed = {}
  /\ search = NoSearch
  /\ lastCall = NoCall

NextClient == ContractHashToAddress \/ ClientSearch

SpecClient == InitClient /\ [][NextClient]_vars

\* C14: whenever contract_hash_to_address or search has made its index
\* reads, IndexProgress equals the number of the resolved head: a call
\* that finds the index behind the head catches up before it reads.
C14_ReadsAfterCatchUp ==
  (/\ lastCall.op \in {"contract_hash_to_address", "search"}
   /\ lastCall.err \in {"ok", "AddressNotFound"})
  => (head_block_header # NoHeader /\ Marker(db) = head_block_header.number)

\* A lookup on a store whose index was behind has returned an address.
C14_Witness ==
  /\ lastCall.op = "contract_hash_to_address"
  /\ lastCall.err = "ok"
  /\ head_block_header.number >= 1
  /\ Marker(db) = head_block_header.number
  /\ \E a \in Addresses : lastCall.val = encode_hex(a) /\ lastCall.arg = sha3(a)


\* --------------------------------- the number codec on 64-bit numbers
\* A number up to 2^64 - 1 as three limbs <<a, b, c>> standing for
\* a * 2^48 + b * 2^24 + c, with a < 2^16 and b, c < 2^24.
WideDiv256(n) ==
  <<n[1] \div 256,
    (n[1] % 256) * 65536 + n[2] \div 256,
    (n[2] % 256) * 65536 + n[3] \div 256>>

WideMod256(n) == n[3] % 256

\* utils.int_to_big_endian on a three-limb number.
RECURSIVE wide_int_to_big_endian(_)
wide_int_to_big_endian(n) ==
  IF n = <<0, 0, 0>> THEN <<>>
  ELSE Append(wide_int_to_big_endian(WideDiv256(n)), WideMod256(n))

format_block_number_wide(number) == zpad(wide_int_to_big_endian(number), 8)

\* n * 256 + byte on a three-limb number.
WideShiftIn(n, byte) ==
  <<n[1] * 256 + n[2] \div 65536,
    (n[2] % 65536) * 256 + n[3] \div 65536,
    (n[3] % 65536) * 256 + byte>>

\* utils.big_endian_to_int to a three-limb number.
RECURSIVE wide_big_endian_to_int(_)
wide_big_endian_to_int(x) ==
  IF x = <<>> THEN <<0, 0, 0>>
  ELSE WideShiftIn(wide_big_endian_to_int(SubSeq(x, 1, Len(x) - 1)), x[Len(x)])

\* Block numbers the codec is applied to: 0, 2^64 - 1 and values around
\* every byte and limb boundary.
WideSamples ==
  {<<a, b, c>> : a \in {0, 1, 65535}, b \in {0, 1, 16777215},
                 c \in {0, 1, 255, 256, 16777215}}

\* _format_block_number applied to a number and to the number of the call
\* before it, and the first decoded back.
FormatBlockNumber ==
  /\ \E n \in WideSamples :
       LET k == IF lastCall.op = "format_block_number" THEN lastCall.arg[1]
                ELSE <<0, 0, 0>>
       IN  lastCall' = Result("format_block_number", <<n, k>>, "ok", NoHeader,
                              <<format_block_number_wide(n), format_block_number_wide(k),
                                wide_big_endian_to_int(format_block_number_wide(n))>>)
  /\ UNCHANGED <<db, accounts, peer, readerVars, indexerVars, search>>

\* ------------------------------------ specification: number codec
InitCodec ==
  /\ db = ChainStore({}, MaxHead, ZeroHash)
  /\ accounts = <<>>
  /\ peer = NoPeer
  /\ head_block_header = NoHeader
  /\ head_state = None
  /\ wb = NoBatch
  /\ pc = "idle"
  /\ blockNum = 0
  /\ lastBlock = 0
  /\ pending = {}
  /\ runs = 0
  /\ indexed = {}
  /\ search = NoSearch
  /\ lastCall = NoCall

NextCodec == FormatBlockNumber

SpecCodec == InitCodec /\ [][NextCodec]_vars

\* Numeric order of three-limb numbers.
WideLess(n, k) ==
  \/ n[1] < k[1]
  \/ n[1] = k[1] /\ n[2] < k[2]
  \/ n[1] = k[1] /\ n[2] = k[2] /\ n[3] < k[3]

\* Byte order of byte strings.
BytesLess(x, y) ==
  \E i \in 1..Len(y) :
    /\ \A j \in 1..(i - 1) : j <= Len(x) /\ x[j] = y[j]
    /\ (i > Len(x) \/ x[i] < y[i])

\* C15: the encoding of a block number in [0, 2^64 - 1] is exactly 8 bytes,
\* decodes back to the number, and a smaller number's encoding sorts before
\* a larger number's in byte order.
C15_FixedWidthSortable ==
  lastCall.op = "format_block_number" =>
    LET n == lastCall.arg[1]
        k == lastCall.arg[2]
        en == lastCall.val[1]
        ek == lastCall.val[2]
    IN  /\ Len(en) = 8
        /\ \A i \in 1..Len(en) : en[i] \in 0..255
        /\ lastCall.val[3] = n
        /\ WideLess(n, k) => BytesLess(en, ek)
        /\ ~WideLess(n, k) => ~BytesLess(en, ek)
        /\ (n[1] = 0 /\ n[2] = 0) => en = format_block_number(n[3])

\* 2^64 - 1 and a smaller number of fewer bytes have been encoded.
C15_Witness ==
  /\ lastCall.op = "format_block_number"
  /\ lastCall.arg[2] = <<65535, 16777215, 16777215>>
  /\ lastCall.val[2] = <<255, 255, 255, 255, 255, 255, 255, 255>>
  /\ lastCall.arg[1] = <<0, 0, 256>>
  /\ lastCall.val[1] = <<0, 0, 0, 0, 0, 0, 1, 0>>


\* ------------------------------------- claims on the order of catch-up
\* C16: one catchUp run handles exactly the block numbers in
\* (IndexProgress, head], ascending, without gaps or repeats: it starts at
\* IndexProgress + 1, stages only the entries of its current block, moves
\* to the next number only in the step that commits the current block's
\* entries, and finishes at the head.
C16_AscendingNoGaps ==
  [][/\ (pc = "idle" /\ pc' = "begin") =>
          /\ blockNum' = Marker(db) + 1
          /\ lastBlock' = RecordedHead(db)
          /\ blockNum' <= lastBlock'
     /\ (pc = "idle" /\ lastCall'.op = "catchUp" /\ lastCall'.val = <<>>) =>
          Marker(db) >= RecordedHead(db)
     /\ (pc # "idle" /\ pc' # "idle" /\ lastCall'.op # "commit") =>
          (blockNum' = blockNum /\ lastBlock' = lastBlock)
     /\ (lastCall'.op = "begin" /\ lastCall'.err = "ok") =>
          /\ blockNum \in (Marker(db) + 1)..lastBlock
          /\ wb'.puts = <<>>
          /\ pending' = Created(db, blockNum)
     /\ lastCall'.op = "store" => lastCall'.arg \in Created(db, blockNum)
     /\ (lastCall'.op = "commit" /\ lastCall'.err = "ok") =>
          /\ blockNum' = blockNum + 1
          /\ lastBlock' = lastBlock
          /\ \A a \in Created(db, blockNum) : EntryVisible(db', a)
          /\ (pc' = "idle") = (blockNum = lastBlock)]_vars

\* A run that began at the empty index has committed block 1 and then the
\* head block, and finished.
C16_Witness ==
  /\ lastCall.op = "commit"
  /\ lastCall.err = "ok"
  /\ lastCall.val = <<>>
  /\ lastBlock = MaxHead
  /\ blockNum = lastBlock + 1
  /\ \E a \in Addresses : a \in Created(db, 1) /\ EntryVisible(db, a)


\* ------------------------------------------- the reader's cached head
\* LevelDBReader._get_head_state as a function of the store and the two
\* cached fields: the state it returns and the fields it leaves.
get_head_state(d, cachedState, cachedHeader) ==
  IF cachedState # None
  THEN [state |-> cachedState, hdr |-> cachedHeader, err |-> "ok"]
  ELSE LET r == get_head_block(d, cachedHeader)
       IN  [state |-> IF r.err = "ok" THEN r.hdr.state_root ELSE None,
            hdr |-> r.hdr, err |-> r.err]

\* A call of LevelDBReader._get_account: the account is read from the
\* state the reader holds.
GetAccount ==
  /\ \E a \in Addresses :
       LET r == get_head_state(db, head_state, head_block_header)
       IN  /\ head_block_header' = r.hdr
           /\ head_state' = r.state
           /\ lastCall' = Result("get_account", a, r.err, NoHeader, r.state)
  /\ UNCHANGED <<db, accounts, peer, indexerVars, search>>

\* EthLevelDB.get_contracts asking the reader for the state it iterates.
IterateAccounts ==
  /\ LET r == get_head_state(db, head_state, head_block_header)
     IN  /\ head_block_header' = r.hdr
         /\ head_state' = r.state
         /\ lastCall' = Result("get_contracts", None, r.err, NoHeader, r.state)
  /\ UNCHANGED <<db, accounts, peer, indexerVars, search>>

\* The node that owns the store records another block as its last block.
MoveHead ==
  /\ \E n \in Blocks :
       /\ dbGet(db, head_header_key) # BlockHash(n)
       /\ db' = dbPut(db, head_header_key, BlockHash(n))
       /\ lastCall' = Result("move_head", format_block_number(n), "ok", NoHeader, None)
  /\ UNCHANGED <<accounts, peer, readerVars, indexerVars, search>>

\* The caller detects staleness and clears the reader's cached fields.
Invalidate ==
  /\ head_block_header # NoHeader \/ head_state # None
  /\ head_block_header' = NoHeader
  /\ head_state' = None
  /\ lastCall' = Result("invalidate", None, "ok", NoHeader, None)
  /\ UNCHANGED <<db, accounts, peer, indexerVars, search>>

\* ------------------------------------- specification: the cached head
\* A complete chain with any recorded head and any state roots missing.
InitCache ==
  /\ \E roots \in SUBSET {StateRoot(n) : n \in Blocks}, head \in Blocks :
       db = ChainStore(roots, head, None)
  /\ accounts = <<>>
  /\ peer = NoPeer
  /\ head_block_header = NoHeader
  /\ head_state = None
  /\ wb = NoBatch
  /\ pc = "idle"
  /\ blockNum = 0
  /\ lastBlock = 0
  /\ pending = {}
  /\ runs = 0
  /\ indexed = {}
  /\ search = NoSearch
  /\ lastCall = NoCall

NextCache ==
  \/ GetHeadBlock
  \/ GetHeadState
  \/ GetAccount
  \/ IterateAccounts
  \/ MoveHead
  \/ Invalidate

SpecCache == InitCache /\ [][NextCache]_vars

StateCalls == {"get_head_state", "get_account", "get_contracts"}

\* C17: once the reader holds a resolved header, every later call returns
\* that header and the state derived from it, whatever the store's head
\* pointer has become, and the cached header and state change only in an
\* invalidation by the caller.
C17_HeadCachedOnce ==
  [][/\ (head_block_header # NoHeader /\ lastCall'.op # "invalidate") =>
          head_block_header' = head_block_header
     /\ (head_state # None /\ lastCall'.op # "invalidate") =>
          head_state' = head_state
     /\ (head_block_header # NoHeader /\ lastCall'.op = "get_head_block") =>
          (lastCall'.err = "ok" /\ lastCall'.hdr = head_block_header)
     /\ (head_state # None /\ lastCall'.op \in StateCalls) =>
          (lastCall'.err = "ok" /\ lastCall'.val = head_state)
     /\ (head_state = None /\ head_block_header # NoHeader
           /\ lastCall'.op \in StateCalls) =>
          (lastCall'.err = "ok" /\ lastCall'.val = head_block_header.state_root)]_vars

\* The store's head pointer names another block, whose state root is
\* present, and a call has just returned the cached header.
C17_Witness ==
  /\ lastCall.op = "get_head_block"
  /\ lastCall.hdr = head_block_header
  /\ head_block_header # NoHeader
  /\ dbGet(db, head_header_key) # head_block_header.hash
  /\ RootPresent(db, RecordedHead(db))
  /\ RootPresent(db, head_block_header.number)


\* ------------------------------------- claims on the walk-back's length
\* Iterations after which a walk is taken not to end.
Fuel == MaxHead + 3

\* Variant: the loop fetches the header it already has, not its parent.
RECURSIVE WalkTrace_NoAdvance(_, _, _)
WalkTrace_NoAdvance(d, h, fuel) ==
  IF ~Truthy(dbGet(d, h.state_root)) /\ h.prevhash # None
  THEN IF fuel = 0 THEN [visited |-> <<>>, diverged |-> TRUE]
       ELSE LET f == FetchHeader(d, h.hash)
                t == IF f.err # "ok" THEN [visited |-> <<>>, diverged |-> FALSE]
                     ELSE WalkTrace_NoAdvance(d, f.hdr, fuel - 1)
            IN  [visited |-> <<h.hash>> \o t.visited, diverged |-> t.diverged]
  ELSE [visited |-> <<>>, diverged |-> FALSE]

\* The walk-back loop from header h with its iterations listed: the hash
\* each iteration fetches, and whether the loop was still going when the
\* fuel ran out.
RECURSIVE WalkTrace(_, _, _)
WalkTrace(d, h, fuel) ==
  IF ~Truthy(dbGet(d, h.state_root)) /\ h.prevhash # None
  THEN IF fuel = 0 THEN [visited |-> <<>>, diverged |-> TRUE]
       ELSE LET f == FetchHeader(d, h.prevhash)
                t == IF f.err # "ok" THEN [visited |-> <<>>, diverged |-> FALSE]
                     ELSE WalkTrace(d, f.hdr, fuel - 1)
            IN  [visited |-> <<h.prevhash>> \o t.visited, diverged |-> t.diverged]
  ELSE [visited |-> <<>>, diverged |-> FALSE]

\* C18: on every store the walk-back from the recorded head ends: it
\* fetches no hash twice, makes at most (recorded head number + 1)
\* iterations, and when it ends with a header that header is the last one
\* it fetched.
C18_WalkTerminates ==
  LET f == FetchHeader(db, dbGet(db, head_header_key))
  IN  f.err = "ok" =>
        LET t == WalkTrace(db, f.hdr, Fuel)
            r == WalkBack(db, f.hdr)
            n == Len(t.visited)
        IN  /\ ~t.diverged
            /\ n <= RecordedHead(db) + 1
            /\ \A i \in 1..n : \A j \in 1..n : i < j => t.visited[i] # t.visited[j]
            /\ (r.err = "ok" /\ n > 0) => r.hdr.hash = t.visited[n]
            /\ (r.err = "ok" /\ n = 0) => r.hdr = f.hdr

\* A call walked from the highest head through genesis, whose state root
\* is missing too, and ended with an error on genesis' parent hash.
C18_Witness ==
  /\ lastCall.op = "get_head_block"
  /\ lastCall.err # "ok"
  /\ RecordedHead(db) = MaxHead
  /\ LET t == WalkTrace(db, Header(MaxHead, ZeroHash), Fuel)
     IN  Len(t.visited) = MaxHead + 1 /\ t.visited[MaxHead + 1] = ZeroHash


\* ----------------------------------- claims on the index over many runs
\* C19: with one catchUp at a time, over runs, failed commits, crashes and
\* restarts the stored IndexProgress never decreases, and an index entry
\* that is in the store stays in it with the same address.
C19_MonotoneAppendOnly ==
  [][/\ Marker(db') >= Marker(db)
     /\ \A k \in IndexKeys(db) : k \in DOMAIN db' /\ db'[k] = db[k]]_vars

\* Catch-up has finished more than once, the marker is at the highest
\* head and an entry of every address is in the store.
C19_Witness ==
  /\ runs >= 2
  /\ Marker(db) = MaxHead
  /\ \A a \in Addresses : EntryVisible(db, a)


\* ------------------------------------ two clients on the same store
\* The scheduler parks the running client process and resumes the other:
\* each process keeps its own reader cache, writer batch and position in
\* catchUp; the store is shared.
Switch ==
  /\ peer' = [head_block_header |-> head_block_header, head_state |-> head_state,
              wb |-> wb, pc |-> pc, blockNum |-> blockNum,
              lastBlock |-> lastBlock, pending |-> pending,
              interleaved |-> peer.interleaved \/ pc # "idle"]
  /\ head_block_header' = peer.head_block_header
  /\ head_state' = peer.head_state
  /\ wb' = peer.wb
  /\ pc' = peer.pc
  /\ blockNum' = peer.blockNum
  /\ lastBlock' = peer.lastBlock
  /\ pending' = peer.pending
  /\ lastCall' = Result("switch", None, "ok", NoHeader, None)
  /\ UNCHANGED <<db, accounts, runs, indexed, search>>

\* ------------------------------ specification: two catch-ups interleaved
\* A complete chain whose head is the highest block, at most one address
\* created per block, no index yet, and two idle clients.
InitTwo ==
  /\ \E rc \in [1..MaxHead -> {{}} \cup {{a} : a \in Addresses}] :
       db = WriteBatch(ChainStore({}, MaxHead, ZeroHash),
                       [k \in {ReceiptsKey(n) : n \in Blocks} |->
                          LET n == CHOOSE m \in Blocks : k = ReceiptsKey(m)
                          IN  IF n = 0 THEN {} ELSE rc[n]])
  /\ accounts = <<>>
  /\ peer = NoPeer
  /\ head_block_header = NoHeader
  /\ head_state = None
  /\ wb = NoBatch
  /\ pc = "idle"
  /\ blockNum = 0
  /\ lastBlock = 0
  /\ pending = {}
  /\ runs = 0
  /\ indexed = {}
  /\ search = NoSearch
  /\ lastCall = NoCall

NextTwo ==
  \/ CatchUpStart
  \/ BeginBlock
  \/ StoreAddress
  \/ SetProgress
  \/ CommitBatch
  \/ Switch

SpecTwo == InitTwo /\ [][NextTwo]_vars

\* C20: the stored IndexProgress is lowered only by a process recording
\* its block number at or below the number the store already holds, and
\* only when the two processes' catch-up runs were interleaved: as long as
\* no process was parked in mid-run, no step lowers it.
C20_LoweredOnlyInterleaved ==
  [][Marker(db') < Marker(db) =>
       /\ lastCall'.op = "progress"
       /\ blockNum <= Marker(db)
       /\ peer.interleaved]_vars

\* One process finished its run, so the marker was at the head, and the
\* other has then recorded a lower block number over it.
C20_Witness ==
  /\ runs >= 1
  /\ lastCall.op = "progress"
  /\ Marker(db) = big_endian_to_int(lastCall.arg)
  /\ Marker(db) < MaxHead
  /\ pc = "commit"
  /\ peer.pc = "idle"

====
